---- MODULE Spec2Model ----
(***************************************************************************)
(* jeprof-rs: the heap_v2 profile parser of src/src/lib.rs.                *)
(*                                                                         *)
(* Text is a sequence of one-character strings.  A parser takes the text s *)
(* and the index i of the next unread character (nom's remaining input is  *)
(* SubSeq(s, i, Len(s))) and returns [ok |-> FALSE] for nom's Err::Error   *)
(* or [ok |-> TRUE, pos |-> index after what it consumed, val |-> output]. *)
(*                                                                         *)
(* TLC's integers are 32 bits wide, so a u64 or i64 value is held in       *)
(* positional notation: the sequence of its digit values, most significant *)
(* first, without leading zeros (zero is <<0>>).  The width of the Rust    *)
(* type is kept by comparing against the digits of its MAX.                *)
(***************************************************************************)
EXTENDS Integers, Sequences, FiniteSets, TLC

VARIABLES fn, src, input, pc, ret, calls

vars == <<fn, src, input, pc, ret, calls>>

\* ------------------------------------------------------------ constants

HEAP_V2_HEADER == <<"h", "e", "a", "p", "_", "v", "2">>

MAPPED_LIBRARIES_HEADER ==
  <<"M", "A", "P", "P", "E", "D", "_", "L", "I", "B", "R", "A", "R", "I", "E", "S", ":", "\n">>

\* u64::MAX = 18446744073709551615, base 10
U64_MAX == <<1, 8, 4, 4, 6, 7, 4, 4, 0, 7, 3, 7, 0, 9, 5, 5, 1, 6, 1, 5>>

\* i64::MAX = 0x7fffffffffffffff, base 16
I64_MAX == <<7, 15, 15, 15, 15, 15, 15, 15, 15, 15, 15, 15, 15, 15, 15, 15>>

\* ------------------------------------------------------ character classes

DecChars == <<"0", "1", "2", "3", "4", "5", "6", "7", "8", "9">>

HexLower == DecChars \o <<"a", "b", "c", "d", "e", "f">>

HexUpper == DecChars \o <<"A", "B", "C", "D", "E", "F">>

Range(f) == {f[k] : k \in DOMAIN f}

\* char::is_ascii_digit, the class of digit1
IsDigit == Range(DecChars)

\* the class of one_of("0123456789abcdefABCDEF")
IsHexDigit == Range(HexLower) \cup Range(HexUpper)

Letters ==
  {"a", "b", "c", "d", "e", "f", "g", "h", "i", "j", "k", "l", "m", "n", "o", "p", "q",
   "r", "s", "t", "u", "v", "w", "x", "y", "z",
   "A", "B", "C", "D", "E", "F", "G", "H", "I", "J", "K", "L", "M", "N", "O", "P", "Q",
   "R", "S", "T", "U", "V", "W", "X", "Y", "Z"}

\* char::is_alphanumeric, on the ASCII characters the model writes
IsAlphanumeric == Letters \cup IsDigit

\* the class of space1: space and tab
IsSpace == {" ", "\t"}

\* the closure of parse_thread's take_while
IsIdChar == IsAlphanumeric \cup {"*"}

\* ------------------------------------------------------------- numbers

\* char::to_digit: the value of a digit character, letters in either case
to_digit(c) ==
  IF c \in Range(HexLower)
    THEN (CHOOSE k \in DOMAIN HexLower : HexLower[k] = c) - 1
    ELSE (CHOOSE k \in DOMAIN HexUpper : HexUpper[k] = c) - 1

RECURSIVE Canon(_)
\* a digit sequence without its leading zeros: the number it denotes
Canon(ds) ==
  IF Len(ds) = 0 THEN <<0>>
  ELSE IF Len(ds) > 1 /\ ds[1] = 0 THEN Canon(Tail(ds))
  ELSE ds

\* a <= b for two numbers in the same base
NumLeq(a, b) ==
  \/ Len(a) < Len(b)
  \/ /\ Len(a) = Len(b)
     /\ \/ a = b
        \/ \E k \in 1..Len(a) :
             /\ a[k] < b[k]
             /\ \A j \in 1..(k - 1) : a[j] = b[j]

Fail == [ok |-> FALSE]

Ok(p, v) == [ok |-> TRUE, pos |-> p, val |-> v]

\* str::parse::<u64> on a run of decimal digits: PosOverflow above u64::MAX
ParseU64(str) ==
  LET v == Canon([k \in 1..Len(str) |-> to_digit(str[k])])
  IN  IF NumLeq(v, U64_MAX) THEN [ok |-> TRUE, val |-> v] ELSE Fail

\* str::replace(out, "_", "")
ReplaceUnderscores(str) == SelectSeq(str, LAMBDA c : c # "_")

\* a from_str_radix that would know the lower-case letters only
FromStrRadix16CaseSensitive(str) ==
  LET v == Canon([k \in 1..Len(str) |->
                    IF str[k] \in Range(HexLower) THEN to_digit(str[k]) ELSE 0])
  IN  IF str # <<>> /\ NumLeq(v, I64_MAX) THEN [ok |-> TRUE, val |-> v] ELSE Fail

\* i64::from_str_radix(str, 16) on hexadecimal digits: Empty on no digit,
\* PosOverflow above i64::MAX
FromStrRadix16(str) ==
  LET v == Canon([k \in 1..Len(str) |-> to_digit(str[k])])
  IN  IF str # <<>> /\ NumLeq(v, I64_MAX) THEN [ok |-> TRUE, val |-> v] ELSE Fail

\* ----------------------------------------------------- nom's primitives

RECURSIVE RunEnd(_, _, _)
\* the index after the longest run of characters of class starting at i
RunEnd(s, i, class) ==
  IF i <= Len(s) /\ s[i] \in class THEN RunEnd(s, i + 1, class) ELSE i

\* str::starts_with
starts_with(s, t) == Len(t) <= Len(s) /\ SubSeq(s, 1, Len(t)) = t

\* bytes::complete::tag
tag(t, s, i) ==
  IF i + Len(t) - 1 <= Len(s) /\ SubSeq(s, i, i + Len(t) - 1) = t
    THEN Ok(i + Len(t), t)
    ELSE Fail

\* character::complete::digit1
digit1(s, i) ==
  LET j == RunEnd(s, i, IsDigit)
  IN  IF j > i THEN Ok(j, SubSeq(s, i, j - 1)) ELSE Fail

\* character::complete::space1
space1(s, i) ==
  LET j == RunEnd(s, i, IsSpace)
  IN  IF j > i THEN Ok(j, SubSeq(s, i, j - 1)) ELSE Fail

\* character::complete::line_ending: "\n" or "\r\n"
line_ending(s, i) ==
  IF tag(<<"\n">>, s, i).ok THEN tag(<<"\n">>, s, i) ELSE tag(<<"\r", "\n">>, s, i)

\* bytes::complete::take_while: zero or more characters of the class
take_while(class, s, i) ==
  LET j == RunEnd(s, i, class)
  IN  Ok(j, SubSeq(s, i, j - 1))

RECURSIVE LineEndIndex(_, _)
\* the index of the first "\r" or "\n" at or after i, Len(s) + 1 if none
LineEndIndex(s, i) ==
  IF i <= Len(s) /\ s[i] \notin {"\r", "\n"} THEN LineEndIndex(s, i + 1) ELSE i

\* character::complete::not_line_ending: up to the line ending or the end of
\* input; an error on a "\r" that no "\n" follows
not_line_ending(s, i) ==
  LET j == LineEndIndex(s, i)
  IN  IF j <= Len(s) /\ s[j] = "\r" /\ ~tag(<<"\r", "\n">>, s, j).ok
        THEN Fail
        ELSE Ok(j, SubSeq(s, i, j - 1))

\* many_m_n(n, n, anychar): exactly n characters, whatever they are
many_n_anychar(n, s, i) ==
  IF i + n - 1 <= Len(s) THEN Ok(i + n, SubSeq(s, i, i + n - 1)) ELSE Fail

\* many_m_n(n, n, one_of(hex digits)): exactly n hexadecimal digits
many_n_hex(n, s, i) ==
  IF i + n - 1 <= Len(s) /\ \A k \in i..(i + n - 1) : s[k] \in IsHexDigit
    THEN Ok(i + n, SubSeq(s, i, i + n - 1))
    ELSE Fail

\* ------------------------------------------------------------ sequencing

\* the result r extended by the result q of the next parser, q's output dropped
DropResult(r, q) == IF q.ok THEN [r EXCEPT !.pos = q.pos] ELSE Fail

\* the result r extended by the result q of the next parser, q's output kept
KeepResult(r, q) == IF q.ok THEN Ok(q.pos, Append(r.val, q.val)) ELSE Fail

\* `let (input, _) = p(input)?;`: run P where r stopped, drop its output
Drop(r, P(_)) == IF r.ok THEN DropResult(r, P(r.pos)) ELSE Fail

\* `let (input, x) = p(input)?;`: run P where r stopped, keep its output
Keep(r, P(_)) == IF r.ok THEN KeepResult(r, P(r.pos)) ELSE Fail

\* `Ok((input, f(outputs)))` after the last `?`
Return(r, F(_)) == IF r.ok THEN Ok(r.pos, F(r.val)) ELSE Fail

\* map_res(digit1, |d| d.parse::<u64>())
map_res_u64(d) ==
  IF d.ok
    THEN LET n == ParseU64(d.val) IN IF n.ok THEN Ok(d.pos, n.val) ELSE Fail
    ELSE Fail

u64_digits(s, i) == map_res_u64(digit1(s, i))

\* ------------------------------------------------------ hexadecimal_value

\* opt(alt((tag("0x"), tag("0X")))): the index after the prefix, if any
hex_prefix(s, i) ==
  IF tag(<<"0", "x">>, s, i).ok \/ tag(<<"0", "X">>, s, i).ok THEN i + 2 ELSE i

RECURSIVE hex_digits_end(_, _)
\* many1(terminated(one_of(hex digits), many0(char('_')))): the index after
\* the repetitions, or i itself when there is not one
hex_digits_end(s, i) ==
  IF i <= Len(s) /\ s[i] \in IsHexDigit
    THEN hex_digits_end(s, RunEnd(s, i + 1, {"_"}))
    ELSE i

\* recognize(many1(...)) from index p, then the map_res closure
hex_recognized(s, p, j) ==
  IF j > p
    THEN LET n == FromStrRadix16(ReplaceUnderscores(SubSeq(s, p, j - 1)))
         IN  IF n.ok THEN Ok(j, n.val) ELSE Fail
    ELSE Fail

hexadecimal_value(s, i) == hex_recognized(s, hex_prefix(s, i), hex_digits_end(s, hex_prefix(s, i)))

\* ----------------------------------------------------------- parse_thread

\* a Thread literal with the two in-use fields in the other order
make_thread_swapped(v) ==
  [id |-> v[1], inuse_count |-> v[3], insuse_space |-> v[2],
   alloc_count |-> v[4], alloc_space |-> v[5]]

\* let thread = Thread { id, inuse_count, insuse_space, alloc_count, alloc_space }
make_thread(v) ==
  [id |-> v[1], inuse_count |-> v[2], insuse_space |-> v[3],
   alloc_count |-> v[4], alloc_space |-> v[5]]

\* take_while(|c: char| c.is_alphanumeric() || c == '*')
thread_id(s, i) == take_while(IsIdChar, s, i)

parse_thread(s, i) ==
  LET r1 == Drop(Ok(i, <<>>), LAMBDA p : tag(<<"t">>, s, p))
      r2 == Keep(r1, LAMBDA p : thread_id(s, p))
      r3 == Drop(r2, LAMBDA p : tag(<<":", " ">>, s, p))
      r4 == Keep(r3, LAMBDA p : u64_digits(s, p))
      r5 == Drop(r4, LAMBDA p : tag(<<":", " ">>, s, p))
      r6 == Keep(r5, LAMBDA p : u64_digits(s, p))
      r7 == Drop(r6, LAMBDA p : tag(<<" ", "[">>, s, p))
      r8 == Keep(r7, LAMBDA p : u64_digits(s, p))
      r9 == Drop(r8, LAMBDA p : tag(<<":", " ">>, s, p))
      r10 == Keep(r9, LAMBDA p : u64_digits(s, p))
      r11 == Drop(r10, LAMBDA p : tag(<<"]">>, s, p))
  IN  Return(r11, make_thread)

\* ----------------------------------------------------------- parse_header

parse_header(s, i) ==
  LET r1 == Drop(Ok(i, <<>>), LAMBDA p : tag(HEAP_V2_HEADER \o <<"/">>, s, p))
      r2 == Keep(r1, LAMBDA p : u64_digits(s, p))
  IN  Return(r2, LAMBDA v : v[1])

\* ------------------------------------------------------------ parse_stack

\* terminated(preceded(space1, parse_thread), line_ending)
thread_line(s, i) ==
  Return(
    Drop(
      Keep(
        Drop(Ok(i, <<>>),
             LAMBDA p : space1(s, p)),
           LAMBDA p : parse_thread(s, p)),
         LAMBDA p : line_ending(s, p)),
    LAMBDA v : v[1])

RECURSIVE many_thread_lines(_, _), many_thread_lines_after(_, _, _)
\* the repetition of many1(thread_line): stops at the first line that fails
many_thread_lines(s, acc) == many_thread_lines_after(s, acc, Keep(acc, LAMBDA p : thread_line(s, p)))

\* r is one more repetition after acc: go on after it, or stop at acc
many_thread_lines_after(s, acc, r) == IF r.ok THEN many_thread_lines(s, r) ELSE acc

\* many1: an error when the repetition matched nothing
at_least_one(m) == IF Len(m.val) >= 1 THEN m ELSE Fail

\* many1(terminated(preceded(space1, parse_thread), line_ending))
many1_thread_lines(s, i) == at_least_one(many_thread_lines(s, Ok(i, <<>>)))

\* preceded(space1, hexadecimal_value)
spaced_addr(s, i) ==
  LET r1 == Drop(Ok(i, <<>>), LAMBDA p : space1(s, p))
      r2 == Keep(r1, LAMBDA p : hexadecimal_value(s, p))
  IN  Return(r2, LAMBDA v : v[1])

RECURSIVE many_addrs(_, _), many_addrs_after(_, _, _)
\* the repetition of many1(preceded(space1, hexadecimal_value))
many_addrs(s, acc) == many_addrs_after(s, acc, Keep(acc, LAMBDA p : spaced_addr(s, p)))

\* r is one more repetition after acc: go on after it, or stop at acc
many_addrs_after(s, acc, r) == IF r.ok THEN many_addrs(s, r) ELSE acc

\* many1(preceded(space1, hexadecimal_value))
many1_addrs(s, i) == at_least_one(many_addrs(s, Ok(i, <<>>)))

parse_stack_addrs(s, i) ==
  LET r1 == Drop(Ok(i, <<>>), LAMBDA p : tag(<<"@">>, s, p))
      r2 == Keep(r1, LAMBDA p : many1_addrs(s, p))
  IN  Return(r2, LAMBDA v : v[1])

parse_stack(s, i) ==
  Return(
    Keep(
      Drop(
        Keep(Ok(i, <<>>),
             LAMBDA p : parse_stack_addrs(s, p)),
           LAMBDA p : line_ending(s, p)),
         LAMBDA p : many1_thread_lines(s, p)),
    LAMBDA v : [addrs |-> v[1], threads |-> v[2]])

RECURSIVE many_stacks(_, _), many_stacks_after(_, _, _)
\* the repetition of many1(parse_stack)
many_stacks(s, acc) == many_stacks_after(s, acc, Keep(acc, LAMBDA p : parse_stack(s, p)))

\* r is one more repetition after acc: go on after it, or stop at acc
many_stacks_after(s, acc, r) == IF r.ok THEN many_stacks(s, r) ELSE acc

\* many1(parse_stack)
many1_stacks(s, i) == at_least_one(many_stacks(s, Ok(i, <<>>)))

\* --------------------------------------------------- parse_mapped_library

parse_mapped_library(s, i) ==
  LET r1 == Keep(Ok(i, <<>>), LAMBDA p : hexadecimal_value(s, p))
      r2 == Drop(r1, LAMBDA p : tag(<<"-">>, s, p))
      r3 == Keep(r2, LAMBDA p : hexadecimal_value(s, p))
      \* r--p
      r4 == Drop(Drop(r3, LAMBDA p : space1(s, p)), LAMBDA p : many_n_anychar(4, s, p))
      \* 00000000
      r5 == Drop(Drop(r4, LAMBDA p : space1(s, p)), LAMBDA p : many_n_hex(8, s, p))
      \* 103:02
      r6 == Drop(Drop(r5, LAMBDA p : space1(s, p)), LAMBDA p : digit1(s, p))
      r7 == Drop(r6, LAMBDA p : tag(<<":">>, s, p))
      r8 == Drop(r7, LAMBDA p : digit1(s, p))
      \* 5000
      r9 == Drop(Drop(r8, LAMBDA p : space1(s, p)), LAMBDA p : digit1(s, p))
      \* /usr/lib/x86_64-linux-gnu/libgcc_s.so.1
      r10 == Keep(Drop(r9, LAMBDA p : space1(s, p)), LAMBDA p : not_line_ending(s, p))
  IN  Return(r10, LAMBDA v : [first |-> v[1], last |-> v[2], path |-> v[3]])

\* ---------------------------------------------------------- parse_profile

RECURSIVE many0_line_ending(_, _), many0_line_ending_after(_, _, _)
\* many0(line_ending): skips the blank lines
many0_line_ending(s, i) == many0_line_ending_after(s, i, line_ending(s, i))

many0_line_ending_after(s, i, le) ==
  IF le.ok THEN many0_line_ending(s, le.pos) ELSE Ok(i, <<>>)

\* a parser that would go on without the marker line
mapped_libraries_header_optional(s, i) ==
  IF tag(MAPPED_LIBRARIES_HEADER, s, i).ok THEN tag(MAPPED_LIBRARIES_HEADER, s, i) ELSE Ok(i, <<>>)

\* tag(MAPPED_LIBRARIES_HEADER)
mapped_libraries_header(s, i) == tag(MAPPED_LIBRARIES_HEADER, s, i)

\* terminated(parse_mapped_library, line_ending)
mapped_library_line(s, i) ==
  Return(
    Drop(
      Keep(Ok(i, <<>>),
           LAMBDA p : parse_mapped_library(s, p)),
         LAMBDA p : line_ending(s, p)),
    LAMBDA v : v[1])

RECURSIVE many_mapped_libraries(_, _), many_mapped_libraries_after(_, _, _)
\* the repetition of many0(mapped_library_line): stops, without an error, at
\* the first line that fails
many_mapped_libraries(s, acc) == many_mapped_libraries_after(s, acc, Keep(acc, LAMBDA p : mapped_library_line(s, p)))

\* r is one more repetition after acc: go on after it, or stop at acc
many_mapped_libraries_after(s, acc, r) == IF r.ok THEN many_mapped_libraries(s, r) ELSE acc

\* many0(terminated(parse_mapped_library, line_ending))
many0_mapped_libraries(s, i) == many_mapped_libraries(s, Ok(i, <<>>))

\* .into_iter().filter(|lib| !lib.path.is_empty()).collect()
filter_path_not_empty(libs) == SelectSeq(libs, LAMBDA lib : lib.path # <<>>)

\* the steps of parse_profile, read downwards: each LAMBDA runs where the one
\* before it stopped, under the Keep or Drop on the same rung from the inside
parse_profile(s, i) ==
  Return(
    Keep(
      Drop(
        Drop(
          Keep(
            Keep(
              Drop(
                Keep(Ok(i, <<>>),
                     LAMBDA p : parse_header(s, p)),
                   LAMBDA p : line_ending(s, p)),
                 LAMBDA p : many1_thread_lines(s, p)),
               LAMBDA p : many1_stacks(s, p)),
             LAMBDA p : many0_line_ending(s, p)),
           LAMBDA p : mapped_libraries_header(s, p)),
         LAMBDA p : many0_mapped_libraries(s, p)),
    LAMBDA v : [sampling_rate |-> v[1],
                totals |-> v[2],
                stacks |-> v[3],
                mapped_libraries |-> filter_path_not_empty(v[4])])

\* ---------------------------------------------------------- Profile::parse

UnsupportedFormat == "Only HEAP V2 profiles are supported"

ParseFailure == "failed to parse heap_v2 profile"

\* parse_profile(profile).map_err(|_| "failed to parse heap_v2 profile")
parsed_or_failure(r) ==
  IF r.ok
    THEN [ok |-> TRUE, profile |-> r.val, calls |-> {"parse_profile"}]
    ELSE [ok |-> FALSE, err |-> ParseFailure, calls |-> {"parse_profile"}]

\* a Profile::parse that would hand every text to parse_profile
Profile_parse_no_magic_check(profile) == parsed_or_failure(parse_profile(profile, 1))

\* Profile::parse: the Result, and the functions it called on the way
Profile_parse(profile) ==
  IF ~starts_with(profile, HEAP_V2_HEADER)
    THEN [ok |-> FALSE, err |-> UnsupportedFormat, calls |-> {}]
    ELSE parsed_or_failure(parse_profile(profile, 1))

\* =========================================================================
\* The inputs: what a writer of the format puts in a document, and the text
\* it is written as.  A number is kept as its digits; a line as its parts.
\* =========================================================================

MaxThreads == 2

MaxStacks == 2

MaxLibs == 2

MaxAddrs == 2

MaxHexLen == 2

MaxSep == 2

SeqsUpTo(S, lo, hi) == UNION {[1..n -> S] : n \in lo..hi}

RECURSIVE Concat(_)
Concat(seqs) == IF seqs = <<>> THEN <<>> ELSE Head(seqs) \o Concat(Tail(seqs))

Rep(c, n) == [k \in 1..n |-> c]

\* a number's decimal digits as characters
WriteDec(n) == [k \in 1..Len(n) |-> DecChars[n[k] + 1]]

\* a number's hexadecimal digits as characters, letters in the given case
WriteHex(n, upper) ==
  [k \in 1..Len(n) |-> IF upper THEN HexUpper[n[k] + 1] ELSE HexLower[n[k] + 1]]

RECURSIVE Separated(_, _, _)
\* sep underscores after every group characters, none after the last
Separated(chars, sep, group) ==
  IF Len(chars) <= group THEN chars
  ELSE SubSeq(chars, 1, group) \o Rep("_", sep)
         \o Separated(SubSeq(chars, group + 1, Len(chars)), sep, group)

\* hexaddr := ("0x"|"0X")? HEXDIGIT ("_"* HEXDIGIT)*
\* the digits are a.zeros leading zeros and then the digits of a.value
WriteAddr(a) ==
  a.prefix \o Separated(WriteHex(Rep(0, a.zeros) \o a.value, a.upper), a.sep, a.group)

\* thread := "t" ID ": " DIGITS ": " DIGITS " [" DIGITS ": " DIGITS "]"
WriteThread(th) ==
  <<"t">> \o th.id \o <<":", " ">> \o WriteDec(th.inuse_count) \o <<":", " ">>
    \o WriteDec(th.inuse_space) \o <<" ", "[">> \o WriteDec(th.alloc_count)
    \o <<":", " ">> \o WriteDec(th.alloc_space) \o <<"]">>

\* WS+ thread "\n"
WriteLine(l) == l.indent \o WriteThread(l.thread) \o l.eol

\* stack := "@" (WS+ hexaddr)+ "\n" (WS+ thread "\n")+
WriteBlock(b) ==
  <<"@">> \o Concat([k \in 1..Len(b.addrs) |-> <<" ">> \o WriteAddr(b.addrs[k])])
    \o <<"\n">> \o Concat([k \in 1..Len(b.lines) |-> WriteLine(b.lines[k])])

\* maplib := hexaddr "-" hexaddr WS+ PERM4 WS+ HEX8 WS+ DIGITS ":" DIGITS WS+ DIGITS WS+ PATH "\n"
WriteLib(m) ==
  WriteAddr(m.first) \o <<"-">> \o WriteAddr(m.last) \o <<" ">> \o m.perm \o <<" ">>
    \o m.offset \o <<" ">> \o m.dev \o <<" ">> \o m.inode \o m.gap \o m.path \o m.eol

\* profile := "heap_v2/" DIGITS "\n" totals stacks blank* "MAPPED_LIBRARIES:\n" maplib*
WriteProfile(d) ==
  d.magic \o Rep("0", d.rate_zeros) \o WriteDec(d.rate) \o <<"\n">>
    \o Concat([k \in 1..Len(d.totals) |-> WriteLine(d.totals[k])])
    \o Concat([k \in 1..Len(d.stacks) |-> WriteBlock(d.stacks[k])])
    \o Rep("\n", d.blanks) \o d.marker
    \o Concat([k \in 1..Len(d.libs) |-> WriteLib(d.libs[k])])

\* ---- numbers at the edges of the two widths

\* 2^64 = 18446744073709551616, base 10
TwoTo64Dec == <<1, 8, 4, 4, 6, 7, 4, 4, 0, 7, 3, 7, 0, 9, 5, 5, 1, 6, 1, 6>>

\* 2^63 = 0x8000000000000000
TwoTo63Hex == <<8>> \o Rep(0, Len(I64_MAX) - 1)

\* 2^64 - 1 = 0xffffffffffffffff
AllOnesHex == Rep(15, Len(I64_MAX))

\* 2^64 = 0x10000000000000000
TwoTo64Hex == <<1>> \o Rep(0, Len(I64_MAX))

\* a hexadecimal number below 2^64: at most as many digits as i64::MAX has
FitsIn64Bits(n) == Len(n) <= Len(I64_MAX)

\* ---- thread records

Thread(id, a, b, c, d) ==
  [id |-> id, inuse_count |-> a, inuse_space |-> b, alloc_count |-> c, alloc_space |-> d]

TStar == Thread(<<"*">>, <<1>>, <<2, 2, 4>>, <<0>>, <<0>>)

T5 == Thread(<<"5">>, <<1>>, <<2, 2, 4>>, <<7>>, <<9, 0>>)

TTotal == Thread(<<"*">>, <<4, 3, 8, 5>>, <<8, 1, 0, 3, 2, 7>>, <<0>>, <<0>>)

Line(th) == [thread |-> th, indent |-> <<" ", " ">>, eol |-> <<"\n">>]

GoodLines == {Line(TStar), Line(T5)}

\* lines that are not  WS+ thread "\n"
BadLines ==
  { [Line(T5) EXCEPT !.indent = <<>>],
    [Line(T5) EXCEPT !.eol = <<>>],
    [Line(T5) EXCEPT !.thread.id = <<>>],
    [Line(T5) EXCEPT !.thread.id = <<"-">>],
    [Line(T5) EXCEPT !.thread.alloc_space = TwoTo64Dec] }

WfThread(th) ==
  /\ th.id # <<>>
  /\ \A k \in 1..Len(th.id) : th.id[k] \in IsAlphanumeric \cup {"*"}
  /\ \A n \in {th.inuse_count, th.inuse_space, th.alloc_count, th.alloc_space} :
       n # <<>> /\ NumLeq(n, U64_MAX)

WfLine(l) ==
  /\ l.indent # <<>>
  /\ l.eol \in {<<"\n">>, <<"\r", "\n">>}
  /\ WfThread(l.thread)

\* ---- addresses and stack blocks

\* 0x<value>; a value of <<>> is a token without a digit
Addr(value) ==
  [value |-> value, zeros |-> 0, upper |-> FALSE, prefix |-> <<"0", "x">>,
   sep |-> 0, group |-> 1]

\* 0x00<value>, as tests::test_parse_profile writes its addresses
Addr00(value) == [Addr(value) EXCEPT !.zeros = 2]

GoodAddrs ==
  { Addr00(<<4>>),
    [Addr(<<10, 11>>) EXCEPT !.upper = TRUE, !.prefix = <<>>, !.sep = 1],
    [Addr(I64_MAX) EXCEPT !.prefix = <<"0", "X">>] }

\* at or above 2^63, below 2^64
HighAddrs == {Addr(TwoTo63Hex), [Addr(AllOnesHex) EXCEPT !.prefix = <<>>]}

\* no digit, or 2^64 and above
BadAddrs == {Addr(<<>>), Addr(TwoTo64Hex)}

WfAddr(a) == a.value # <<>> /\ FitsIn64Bits(a.value)

Block(addrs, lines) == [addrs |-> addrs, lines |-> lines]

B4321 ==
  Block(<<Addr00(<<4>>), Addr00(<<3>>), Addr00(<<2>>), Addr00(<<1>>)>>,
        <<Line(TStar), Line(T5)>>)

B1234 ==
  Block(<<Addr00(<<1>>), Addr00(<<2>>), Addr00(<<3>>), Addr00(<<4>>)>>,
        <<Line(TStar), Line(T5)>>)

B7 == Block(<<[Addr(<<7, 15>>) EXCEPT !.upper = TRUE, !.prefix = <<>>]>>, <<Line(TStar)>>)

WfBlock(b) ==
  /\ b.addrs # <<>>
  /\ b.lines # <<>>
  /\ \A k \in 1..Len(b.addrs) : WfAddr(b.addrs[k])
  /\ \A k \in 1..Len(b.lines) : WfLine(b.lines[k])

\* ---- mapped-library rows

\* a value in the eight digits or more of a memory map, without a prefix
Plain(value) ==
  [Addr(value) EXCEPT !.prefix = <<>>,
                      !.zeros = IF Len(value) < 8 THEN 8 - Len(value) ELSE 0]

\* 00000001-00000004 r--p 00000000 103:02 5000        /usr/lib/libgcc_s.so.1
LibGcc ==
  [first |-> Plain(<<1>>), last |-> Plain(<<4>>),
   perm |-> <<"r", "-", "-", "p">>, offset |-> Rep("0", 8),
   dev |-> <<"1", "0", "3", ":", "0", "2">>, inode |-> <<"5", "0", "0", "0">>,
   gap |-> Rep(" ", 8), path |-> <<"/", "u", "s", "r", "/", "l", "i", "b", "/", "l", "i", "b", "g", "c", "c", "_", "s", ".", "s", "o", ".", "1">>,
   eol |-> <<"\n">>]

\* 00007f00-00007f0a rw-p 00000000 00:00 0   (an anonymous mapping: no path)
LibAnon ==
  [LibGcc EXCEPT !.first = Plain(<<7, 15, 0, 0>>), !.last = Plain(<<7, 15, 0, 10>>),
                 !.perm = <<"r", "w", "-", "p">>, !.dev = <<"0", "0", ":", "0", "0">>,
                 !.inode = <<"0">>, !.gap = <<" ">>, !.path = <<>>]

\* a path with spaces in it, on a line ended by "\r\n"
LibSpaces ==
  [LibGcc EXCEPT !.first = Plain(<<5>>), !.last = Plain(<<6>>), !.gap = <<" ">>,
                 !.path = <<"/", "a", " ", "b", " ", "(", "d", "e", "l", "e", "t", "e", "d", ")">>, !.eol = <<"\r", "\n">>]

\* ffffffffff600000-ffffffffff601000 --xp 00000000 00:00 0    [vsyscall]
LibVsyscall ==
  [LibAnon EXCEPT !.first = Plain(Rep(15, 10) \o <<6, 0, 0, 0, 0, 0>>),
                  !.last = Plain(Rep(15, 10) \o <<6, 0, 1, 0, 0, 0>>),
                  !.perm = <<"-", "-", "x", "p">>, !.gap = Rep(" ", 4),
                  !.path = <<"[", "v", "s", "y", "s", "c", "a", "l", "l", "]">>]

GoodLibs == {LibGcc, LibAnon, LibSpaces}

\* rows that are not a maplib line
BadLibs ==
  { [LibAnon EXCEPT !.gap = <<>>],
    [LibGcc EXCEPT !.perm = <<"r", "-", "p">>],
    [LibGcc EXCEPT !.offset = Rep("0", 7)],
    [LibGcc EXCEPT !.first = [Addr(<<>>) EXCEPT !.prefix = <<>>]],
    [LibGcc EXCEPT !.eol = <<>>] }

WfLib(m) ==
  /\ WfAddr(m.first) /\ WfAddr(m.last)
  /\ Len(m.perm) = 4
  /\ Len(m.offset) = 8 /\ \A k \in 1..Len(m.offset) : m.offset[k] \in IsHexDigit
  /\ \E c \in 2..(Len(m.dev) - 1) :
       /\ m.dev[c] = ":"
       /\ \A k \in (1..Len(m.dev)) \ {c} : m.dev[k] \in IsDigit
  /\ m.inode # <<>> /\ \A k \in 1..Len(m.inode) : m.inode[k] \in IsDigit
  /\ m.gap # <<>> /\ \A k \in 1..Len(m.gap) : m.gap[k] \in IsSpace
  /\ \A k \in 1..Len(m.path) : m.path[k] \notin {"\r", "\n"}
  /\ m.eol \in {<<"\n">>, <<"\r", "\n">>}

\* ---- documents

\* the end-to-end document of the specification
Base ==
  [magic |-> HEAP_V2_HEADER \o <<"/">>, rate |-> <<1, 3, 1, 0, 7, 2>>, rate_zeros |-> 0,
   totals |-> <<Line(TTotal)>>, stacks |-> <<B4321, B1234>>, blanks |-> 0,
   marker |-> MAPPED_LIBRARIES_HEADER, libs |-> <<>>]

\* every line but the last is followed by a line break (a missing one joins
\* that line to the next)
LastOnlyUnended(lines) == \A k \in 1..(Len(lines) - 1) : lines[k].eol # <<>>

ShapeDocs ==
  { [Base EXCEPT !.totals = t, !.stacks = s, !.blanks = b, !.libs = l] :
      t \in SeqsUpTo(GoodLines, 1, MaxThreads),
      s \in SeqsUpTo({B4321, B7}, 1, MaxStacks),
      b \in {0, 1},
      l \in SeqsUpTo({LibGcc, LibAnon}, 0, MaxLibs) }

LibDocs ==
  { [Base EXCEPT !.libs = l] :
      l \in {x \in SeqsUpTo(GoodLibs \cup BadLibs \cup {LibVsyscall}, 0, MaxLibs) :
               LastOnlyUnended(x)} }

TotalsDocs ==
  { [Base EXCEPT !.totals = t] : t \in SeqsUpTo(GoodLines \cup BadLines, 0, MaxThreads) }

BlockDocs ==
  { [Base EXCEPT !.stacks = pre \o <<b>>] :
      pre \in {<<>>, <<B7>>},
      b \in { Block(a, <<Line(TStar)>>) :
                a \in SeqsUpTo(GoodAddrs \cup HighAddrs \cup BadAddrs, 0, MaxAddrs) }
            \cup
            { Block(<<Addr00(<<4>>)>>, l) :
                l \in SeqsUpTo(GoodLines \cup BadLines, 0, MaxThreads) } }

Magics ==
  { HEAP_V2_HEADER \o <<"/">>, HEAP_V2_HEADER, HEAP_V2_HEADER \o <<":">>,
    <<"h", "e", "a", "p", "_", "v", "1", "/">>, <<"H", "E", "A", "P", "_", "V", "2", "/">>,
    <<" ">> \o HEAP_V2_HEADER \o <<"/">>, <<"h", "e", "a", "p">>, <<>> }

\* <<>> is a header without a digit
Rates == {<<0>>, <<1, 3, 1, 0, 7, 2>>, U64_MAX, TwoTo64Dec, <<>>}

HeaderDocs ==
  { d \in { [Base EXCEPT !.magic = m, !.rate = r, !.rate_zeros = z] :
              m \in Magics, r \in Rates, z \in {0, 2} } :
      d.rate = <<>> => d.rate_zeros = 0 }

Markers ==
  { MAPPED_LIBRARIES_HEADER,
    <<>>,
    SubSeq(MAPPED_LIBRARIES_HEADER, 1, Len(MAPPED_LIBRARIES_HEADER) - 1),
    SubSeq(MAPPED_LIBRARIES_HEADER, 1, Len(MAPPED_LIBRARIES_HEADER) - 1) \o <<"\r", "\n">>,
    <<" ">> \o MAPPED_LIBRARIES_HEADER,
    <<"m", "a", "p", "p", "e", "d", "_", "l", "i", "b", "r", "a", "r", "i", "e", "s", ":", "\n">> }

MarkerDocs ==
  { [Base EXCEPT !.marker = m, !.blanks = b, !.libs = l] :
      m \in Markers, b \in {0, 1}, l \in {<<>>, <<LibGcc>>} }

\* the document of tests::test_parse_profile: no line break after the last
\* thread record, and nothing after it
TestProfile ==
  [Base EXCEPT
     !.totals =
       << Line(TTotal),
          Line(Thread(<<"0">>, <<1, 2, 9>>, <<4, 9, 6, 5>>, <<0>>, <<0>>)),
          Line(Thread(<<"1">>, <<1, 9, 1>>, <<7, 9, 4, 2>>, <<0>>, <<0>>)),
          Line(Thread(<<"2">>, <<0>>, <<0>>, <<0>>, <<0>>)),
          Line(Thread(<<"3">>, <<1, 2, 8>>, <<5, 2, 6, 8>>, <<0>>, <<0>>)),
          Line(Thread(<<"4">>, <<4>>, <<4, 0, 5, 1, 1, 5, 4, 9, 4>>, <<0>>, <<0>>)),
          Line(Thread(<<"5">>, <<4, 6, 8>>, <<4, 2, 0, 1, 5>>, <<0>>, <<0>>)),
          Line(Thread(<<"6">>, <<1, 4, 8>>, <<5, 5, 8, 6>>, <<0>>, <<0>>)),
          Line(Thread(<<"7">>, <<2, 3, 2>>, <<1, 5, 2, 9, 0>>, <<0>>, <<0>>)),
          Line(Thread(<<"8">>, <<0>>, <<0>>, <<0>>, <<0>>)) >>,
     !.stacks =
       << [B4321 EXCEPT !.lines =
             <<Line(TStar), Line(Thread(<<"5">>, <<1>>, <<2, 2, 4>>, <<0>>, <<0>>))>>],
          [B1234 EXCEPT !.lines =
             <<Line(TStar),
               [Line(Thread(<<"5">>, <<1>>, <<2, 2, 4>>, <<0>>, <<0>>)) EXCEPT !.eol = <<>>]>>] >>,
     !.marker = <<>>]

\* documents that end with their last thread record
StacksOnly(d) == d.marker = <<>> /\ d.libs = <<>> /\ d.blanks = 0

Unended(b) == [b EXCEPT !.lines[Len(b.lines)].eol = <<>>]

StacksOnlyDocs ==
  {TestProfile} \cup
  { [Base EXCEPT !.stacks = s, !.marker = <<>>] :
      s \in {<<B4321, B1234>>, <<B4321, Unended(B1234)>>, <<Unended(B7)>>} }

ProfileDocs ==
  ShapeDocs \cup LibDocs \cup TotalsDocs \cup BlockDocs \cup HeaderDocs \cup MarkerDocs
    \cup StacksOnlyDocs

\* hexadecimal tokens
HexValues ==
  {<<>>, <<0>>, I64_MAX, TwoTo63Hex, AllOnesHex, TwoTo64Hex}
    \cup SeqsUpTo({1, 10, 15}, 1, MaxHexLen)

\* a token without a digit has no leading zero either; the grouping of the
\* digits matters only where there are separators
HexTokens ==
  { a \in [value : HexValues, zeros : {0, 7}, upper : BOOLEAN,
           prefix : {<<>>, <<"0", "x">>, <<"0", "X">>}, sep : 0..MaxSep, group : {1, 2}] :
      /\ a.value = <<>> => a.zeros = 0
      /\ a.sep = 0 => a.group = 1 }

\* thread records
ThreadIds ==
  {<<"*">>, <<"1", "2", "3">>, <<"0">>, <<"m", "a", "i", "n">>, <<"-">>, <<>>}

Counts == {<<5, 0, 0, 0>>, U64_MAX, TwoTo64Dec}

ThreadRecords ==
  [id : ThreadIds, inuse_count : Counts, inuse_space : Counts \cup {<<0>>},
   alloc_count : Counts, alloc_space : Counts]

\* =========================================================================
\* The calls
\* =========================================================================

Init ==
  /\ pc = "ready"
  /\ ret = Fail
  /\ calls = {}
  /\ \/ fn = "Profile::parse" /\ src \in ProfileDocs /\ input = WriteProfile(src)
     \/ /\ fn = "parse_profile"
        /\ src \in LibDocs \cup HeaderDocs \cup MarkerDocs \cup StacksOnlyDocs
        /\ input = WriteProfile(src)
     \/ fn = "parse_thread" /\ src \in ThreadRecords /\ input = WriteThread(src)
     \/ fn = "hexadecimal_value" /\ src \in HexTokens /\ input = WriteAddr(src)

\* main, or a caller of the library: Profile::parse(&profile)
CallProfileParse ==
  /\ fn = "Profile::parse" /\ pc = "ready"
  /\ ret' = Profile_parse(input)
  /\ calls' = ret'.calls
  /\ pc' = "returned"
  /\ UNCHANGED <<fn, src, input>>

\* tests::test_parse_profile: parse_profile(data)
CallParseProfile ==
  /\ fn = "parse_profile" /\ pc = "ready"
  /\ ret' = parse_profile(input, 1)
  /\ pc' = "returned"
  /\ UNCHANGED <<fn, src, input, calls>>

\* tests::test_parse_thread: parse_thread(data)
CallParseThread ==
  /\ fn = "parse_thread" /\ pc = "ready"
  /\ ret' = parse_thread(input, 1)
  /\ pc' = "returned"
  /\ UNCHANGED <<fn, src, input, calls>>

\* hexadecimal_value(input)
CallHexadecimalValue ==
  /\ fn = "hexadecimal_value" /\ pc = "ready"
  /\ ret' = hexadecimal_value(input, 1)
  /\ pc' = "returned"
  /\ UNCHANGED <<fn, src, input, calls>>

Next ==
  \/ CallProfileParse
  \/ CallParseProfile
  \/ CallParseThread
  \/ CallHexadecimalValue

Spec == Init /\ [][Next]_vars

\* =========================================================================
\* What the format's specification says of the calls
\* =========================================================================

Returned == pc = "returned"

ParsesProfile == fn \in {"Profile::parse", "parse_profile"}

\* the Profile of a successful call
TheProfile == IF fn = "Profile::parse" THEN ret.profile ELSE ret.val

\* the Thread a written thread record stands for
WrittenThread(th) ==
  [id |-> th.id, inuse_count |-> th.inuse_count, insuse_space |-> th.inuse_space,
   alloc_count |-> th.alloc_count, alloc_space |-> th.alloc_space]

WrittenThreads(lines) == [k \in 1..Len(lines) |-> WrittenThread(lines[k].thread)]

WrittenAddrs(b) == [k \in 1..Len(b.addrs) |-> b.addrs[k].value]

\* the Stack a written block stands for
WrittenStack(b) == [addrs |-> WrittenAddrs(b), threads |-> WrittenThreads(b.lines)]

WrittenStacks(d) == [k \in 1..Len(d.stacks) |-> WrittenStack(d.stacks[k])]

TheMagic == <<"h", "e", "a", "p", "_", "v", "2">>

BeginsWithMagic ==
  /\ Len(input) >= Len(TheMagic)
  /\ \A k \in 1..Len(TheMagic) : input[k] = TheMagic[k]

WfHeader(d) ==
  /\ d.magic = TheMagic \o <<"/">>
  /\ d.rate # <<>>
  /\ NumLeq(d.rate, U64_MAX)

WfTotals(d) == d.totals # <<>> /\ \A k \in 1..Len(d.totals) : WfLine(d.totals[k])

WfStacks(d) == d.stacks # <<>> /\ \A k \in 1..Len(d.stacks) : WfBlock(d.stacks[k])

WfMarker(d) == d.marker = MAPPED_LIBRARIES_HEADER

WfLibs(d) == \A k \in 1..Len(d.libs) : WfLib(d.libs[k])

WfDoc(d) == WfHeader(d) /\ WfTotals(d) /\ WfStacks(d) /\ WfMarker(d) /\ WfLibs(d)

\* a line of one of the three sections that is not of the section's grammar
MalformedLine(d) ==
  \/ \E k \in 1..Len(d.totals) : ~WfLine(d.totals[k])
  \/ \E k \in 1..Len(d.stacks) :
       \/ d.stacks[k].addrs = <<>>
       \/ \E a \in 1..Len(d.stacks[k].addrs) : ~WfAddr(d.stacks[k].addrs[a])
       \/ \E l \in 1..Len(d.stacks[k].lines) : ~WfLine(d.stacks[k].lines[l])
  \/ \E k \in 1..Len(d.libs) : ~WfLib(d.libs[k])

\* the last thread record of the document, followed by a line break or not
LastLine(d) == d.stacks[Len(d.stacks)].lines[Len(d.stacks[Len(d.stacks)].lines)]

\* the stack blocks are of the grammar but for the line break that the last
\* thread record lacks
EndsAtThreadRecord(d) ==
  /\ d.stacks # <<>>
  /\ d.stacks[Len(d.stacks)].lines # <<>>
  /\ LastLine(d).eol = <<>>
  /\ WfStacks([d EXCEPT !.stacks[Len(d.stacks)] = [@ EXCEPT !.lines[Len(@.lines)].eol = <<"\n">>]])

\* the threads of a Profile, of its totals and of its stacks
ThreadsOf(p) ==
  {p.totals[k] : k \in 1..Len(p.totals)}
    \cup UNION {{p.stacks[k].threads[l] : l \in 1..Len(p.stacks[k].threads)} :
                  k \in 1..Len(p.stacks)}

\* the paths of a sequence of rows or of MappedLibrary values
Paths(rows) == [k \in 1..Len(rows) |-> rows[k].path]

\* the rows of the table that are maplib lines with a path
RowsWithPath(d) == SelectSeq(d.libs, LAMBDA m : WfLib(m) /\ m.path # <<>>)

RECURSIVE IntOf(_)
\* a small hexadecimal number as an integer
IntOf(n) == IF n = <<>> THEN 0 ELSE 16 * IntOf(SubSeq(n, 1, Len(n) - 1)) + n[Len(n)]

\* C1: Profile::parse never returns a partial result: when a line of the
\* totals block, of a stack block or of the mapped-library table is not of its
\* section's grammar, Profile::parse returns a failure.
C1_NoPartialResult ==
  (fn = "Profile::parse" /\ Returned /\ MalformedLine(src)) => ~ret.ok

\* C2: an input with a well-formed header, totals block and stack blocks but
\* without the line MAPPED_LIBRARIES:\n after them makes parse_profile and
\* Profile::parse fail.
C2_MissingMarkerFails ==
  (ParsesProfile /\ Returned /\ WfHeader(src) /\ WfTotals(src) /\ WfStacks(src)
     /\ ~WfMarker(src))
    => ~ret.ok

\* a well-formed header, totals block and stack blocks, nothing after them, and
\* the failure of parse_profile
C2_Witness ==
  /\ fn = "parse_profile" /\ Returned
  /\ WfHeader(src) /\ WfTotals(src) /\ WfStacks(src)
  /\ src.marker = <<>> /\ src.libs = <<>>
  /\ ~ret.ok

\* C3: parse_profile succeeds on a document of header, totals block and stack
\* blocks only whose last thread record has no line break after it, and
\* returns the header's sampling rate, the totals lines, one Stack per block
\* and the first stack's addresses as written.
C3_StacksOnlyDocumentParses ==
  (fn = "parse_profile" /\ Returned /\ StacksOnly(src) /\ WfHeader(src) /\ WfTotals(src)
     /\ EndsAtThreadRecord(src))
    => /\ ret.ok
       /\ ret.val.sampling_rate = src.rate
       /\ ret.val.totals = WrittenThreads(src.totals)
       /\ Len(ret.val.stacks) = Len(src.stacks)
       /\ ret.val.stacks[1].addrs = WrittenAddrs(src.stacks[1])

\* C4: on an input that does not begin with heap_v2, Profile::parse returns
\* UnsupportedFormat, which is not ParseFailure, and parse_profile is not
\* called; on an input that begins with heap_v2 a failure is not
\* UnsupportedFormat.
C4_UnsupportedFormat ==
  (fn = "Profile::parse" /\ Returned)
    => /\ UnsupportedFormat # ParseFailure
       /\ ~BeginsWithMagic
            => ~ret.ok /\ ret.err = UnsupportedFormat /\ "parse_profile" \notin calls
       /\ (BeginsWithMagic /\ ~ret.ok) => ret.err # UnsupportedFormat

\* Profile::parse has returned on a heap_v1 document
C4_Witness ==
  /\ fn = "Profile::parse" /\ Returned
  /\ src.magic = <<"h", "e", "a", "p", "_", "v", "1", "/">>
  /\ ~ret.ok /\ ret.err = UnsupportedFormat /\ calls = {}

\* C5: in a returned Profile no MappedLibrary has an empty path, and the
\* mapped-library lines of the input that have a path are all in
\* mapped_libraries, in source order, each with the rest of its line as path.
C5_MappedLibraries ==
  (ParsesProfile /\ Returned /\ ret.ok)
    => /\ \A k \in 1..Len(TheProfile.mapped_libraries) :
            TheProfile.mapped_libraries[k].path # <<>>
       /\ Paths(TheProfile.mapped_libraries) = Paths(RowsWithPath(src))

\* C6: on a well-formed document Profile::parse returns the sections in source
\* order: the header's number as sampling_rate, the totals lines, one Stack
\* per block, each with the block's addresses in the order written.
C6_SectionsInSourceOrder ==
  (fn = "Profile::parse" /\ Returned /\ WfDoc(src))
    => /\ ret.ok
       /\ ret.profile.sampling_rate = src.rate
       /\ ret.profile.totals = WrittenThreads(src.totals)
       /\ ret.profile.stacks = WrittenStacks(src)

\* C7: hexadecimal_value fails exactly when the token has no hexadecimal digit
\* or the value of its digits does not fit in 64 bits; a token whose digits
\* denote a value below 2^64 decodes.
C7_HexFailsExactlyOnNoDigitOrOverflow ==
  (fn = "hexadecimal_value" /\ Returned)
    => (~ret.ok <=> (src.value = <<>> \/ ~FitsIn64Bits(src.value)))

\* C8: hexadecimal_value decodes a token to the base-16 value of its digits
\* whatever the case of its letters, its prefix and its separators: the
\* result is that of the same digits written plainly, 1f in any form is 31 and
\* 0x00_00_00_01 is 1.
C8_HexValueIndependentOfForm ==
  (fn = "hexadecimal_value" /\ Returned)
    => /\ ret.ok = hexadecimal_value(WriteHex(Rep(0, src.zeros) \o src.value, FALSE), 1).ok
       /\ (src.value # <<>> /\ NumLeq(src.value, I64_MAX)) => ret.ok
       /\ ret.ok => ret.val = src.value /\ ret.pos = Len(input) + 1
       /\ (ret.ok /\ src.value = <<1, 15>>) => IntOf(ret.val) = 31
       /\ (ret.ok /\ src.value = <<1>>) => IntOf(ret.val) = 1

\* 0X1_F has been decoded to 31
C8_Witness ==
  /\ fn = "hexadecimal_value" /\ Returned
  /\ src.value = <<1, 15>> /\ src.upper /\ src.prefix = <<"0", "X">> /\ src.sep = 1
  /\ ret.ok /\ IntOf(ret.val) = 31

\* C9: for a thread record t ID: A: B [C: D] with A, B, C, D below 2^64,
\* parse_thread returns the Thread of id ID, verbatim, and of inuse_count,
\* inuse_space, alloc_count, alloc_space A, B, C, D.
C9_ThreadFieldsInSourceOrder ==
  (fn = "parse_thread" /\ Returned /\ WfThread(src))
    => ret.ok /\ ret.val = WrittenThread(src) /\ ret.pos = Len(input) + 1

\* the record t*: 5000: 0 [18446744073709551615: 5000] has been parsed
C9_Witness ==
  /\ fn = "parse_thread" /\ Returned
  /\ src = Thread(<<"*">>, <<5, 0, 0, 0>>, <<0>>, U64_MAX, <<5, 0, 0, 0>>)
  /\ ret.ok /\ ret.val.id = <<"*">> /\ ret.val.insuse_space = <<0>>

\* C10: parse_thread accepts a thread record only when its ID has one or more
\* characters, each alphanumeric or *, so that no Thread of a returned Profile
\* has an empty id.
C10_EmptyIdRejected ==
  /\ (fn = "parse_thread" /\ Returned /\ ret.ok)
       => src.id # <<>> /\ \A k \in 1..Len(src.id) : src.id[k] \in IsIdChar
  /\ (ParsesProfile /\ Returned /\ ret.ok)
       => \A th \in ThreadsOf(TheProfile) : th.id # <<>>

====
